---- MODULE Spec2Model ----
(***************************************************************************)
(* shh-env: secrets kept in the OS keychain, organised in the layers       *)
(* _ -> service -> service::env, injected into a child process (run) or    *)
(* shown as a tree (list).                                                 *)
(*                                                                         *)
(* Strings are sequences of one-character strings, so that the regular     *)
(* expressions, the "::" separator and String.split are modelled by what   *)
(* they do.  An optional argument is None (undefined) or Some(s).          *)
(***************************************************************************)
EXTENDS Integers, Sequences, FiniteSets, TLC

VARIABLES
    keychain,   \* the OS credential store: a set of items [service, key, value]
    inp,        \* the arguments of a library call (library specifications)
    out         \* the observable result of the last call or command

vars == <<keychain, inp, out>>

----------------------------------------------------------------------------
(* Bounds *)

MaxLen == 2         \* length of a service / env argument of buildServiceName
MaxPartLen == 1     \* length of one "::"-separated part of a stored name
MaxParts == 3       \* number of "::"-separated parts of a stored name

----------------------------------------------------------------------------
(* Characters and strings *)

Lower == {"a", "b", "d"}
Upper == {"A", "B"}
Digit == {"1"}

\* the characters the exhaustive inputs are built from: one or two of each
\* class the three patterns tell apart, the separator character and a space
Sigma == {"a", "A", "1", "_", ".", ":", " "}
PartSigma == {"a", ".", ":", " "}

\* UTF-16 code units, the order Array.prototype.sort() compares by
Code(c) ==
    CASE c = " " -> 32 [] c = "-" -> 45 [] c = "." -> 46 [] c = "1" -> 49
      [] c = ":" -> 58 [] c = "A" -> 65 [] c = "B" -> 66 [] c = "_" -> 95
      [] c = "a" -> 97 [] c = "b" -> 98 [] c = "d" -> 100

StringsOver(S, n) == UNION {[1..k -> S] : k \in 0..n}

None == <<>>
Some(s) == <<s>>
Opt(S) == {None} \cup {Some(s) : s \in S}

\* JavaScript truthiness of an optional string argument: undefined and ""
\* are both falsy
Truthy(o) == o # None /\ o[1] # <<>>

DEFAULT_SERVICE == <<"_">>
SEP == <<":", ":">>

----------------------------------------------------------------------------
(* lib/secrets: validation patterns *)

ServiceChars == Lower \cup Upper \cup Digit \cup {".", "_", "-"}
EnvChars == Lower \cup Upper \cup Digit \cup {"_", "-"}
KeyTailChars == Upper \cup Digit \cup {"_"}

\* SERVICE_PATTERN with the colon let in
SERVICE_PATTERN_colon(s) ==
    Len(s) >= 1 /\ \A i \in 1..Len(s) : s[i] \in ServiceChars \cup {":"}

\* /^[a-zA-Z0-9._-]+$/
SERVICE_PATTERN(s) == Len(s) >= 1 /\ \A i \in 1..Len(s) : s[i] \in ServiceChars

\* ENV_PATTERN with the dot let in
ENV_PATTERN_dot(s) == Len(s) >= 1 /\ \A i \in 1..Len(s) : s[i] \in EnvChars \cup {"."}

\* /^[a-zA-Z0-9_-]+$/
ENV_PATTERN(s) == Len(s) >= 1 /\ \A i \in 1..Len(s) : s[i] \in EnvChars

\* KEY_PATTERN with the first character taken from the class of the rest
KEY_PATTERN_anyFirst(s) ==
    /\ Len(s) >= 1
    /\ \A i \in 1..Len(s) : s[i] \in KeyTailChars

\* /^[A-Z][A-Z0-9_]*$/
KEY_PATTERN(s) ==
    /\ Len(s) >= 1
    /\ s[1] \in Upper
    /\ \A i \in 2..Len(s) : s[i] \in KeyTailChars

\* TRUE when the function returns, FALSE when it throws
validateService(service) == service = DEFAULT_SERVICE \/ SERVICE_PATTERN(service)

validateEnv(env) == ENV_PATTERN(env)

validateKey(key) == KEY_PATTERN(key)

----------------------------------------------------------------------------
(* lib/secrets: the namespace codec *)

Built(v) == [err |-> "none", value |-> Some(v)]
Thrown(e) == [err |-> e, value |-> None]

\* the template literal with a single colon
buildServiceName_colon(service, env) ==
    IF Truthy(env)
    THEN IF ~Truthy(service) THEN Thrown("--env requires --service")
         ELSE IF ~validateService(service[1]) THEN Thrown("Invalid service name")
         ELSE IF ~validateEnv(env[1]) THEN Thrown("Invalid env name")
         ELSE Built(service[1] \o <<":">> \o env[1])
    ELSE LET svc == IF Truthy(service) THEN service[1] ELSE DEFAULT_SERVICE
         IN  IF ~validateService(svc) THEN Thrown("Invalid service name")
             ELSE Built(svc)

buildServiceName(service, env) ==
    IF Truthy(env)
    THEN IF ~Truthy(service) THEN Thrown("--env requires --service")
         ELSE IF ~validateService(service[1]) THEN Thrown("Invalid service name")
         ELSE IF ~validateEnv(env[1]) THEN Thrown("Invalid env name")
         ELSE Built(service[1] \o SEP \o env[1])
    ELSE LET svc == IF Truthy(service) THEN service[1] ELSE DEFAULT_SERVICE
         IN  IF ~validateService(svc) THEN Thrown("Invalid service name")
             ELSE Built(svc)

\* String.prototype.split("::"): cut at every occurrence of the separator,
\* scanning from the left; cur is the part being read
RECURSIVE SplitFrom(_, _, _)
SplitFrom(s, i, cur) ==
    IF i > Len(s) THEN <<cur>>
    ELSE IF i < Len(s) /\ s[i] = ":" /\ s[i + 1] = ":"
         THEN <<cur>> \o SplitFrom(s, i + 2, <<>>)
         ELSE SplitFrom(s, i + 1, Append(cur, s[i]))

Split(s) == SplitFrom(s, 1, <<>>)

\* the two-parts test without the non-empty checks
parseServiceName_arity(serviceName) ==
    LET parts == Split(serviceName)
    IN  IF Len(parts) = 2
        THEN [service |-> parts[1], env |-> Some(parts[2])]
        ELSE [service |-> serviceName, env |-> None]

parseServiceName(serviceName) ==
    LET parts == Split(serviceName)
    IN  IF Len(parts) = 2 /\ parts[1] # <<>> /\ parts[2] # <<>>
        THEN [service |-> parts[1], env |-> Some(parts[2])]
        ELSE [service |-> serviceName, env |-> None]

----------------------------------------------------------------------------
(* lib/enumerate: the entry filter and the grouping *)

\* the pattern with the colon let into the class of the ::env group
servicePattern_colon(s) ==
    \/ s = <<"_">>
    \/ \E n \in 1..Len(s) :
          /\ \A i \in 1..n : s[i] \in ServiceChars
          /\ \/ n = Len(s)
             \/ /\ Len(s) >= n + 3
                /\ s[n + 1] = ":" /\ s[n + 2] = ":"
                /\ \A i \in (n + 3)..Len(s) : s[i] \in EnvChars \cup {":"}

\* /^(_|[a-zA-Z0-9._-]+(::[a-zA-Z0-9_-]+)?)$/ : n is the length of the
\* service part the first group matches
servicePattern(s) ==
    \/ s = <<"_">>
    \/ \E n \in 1..Len(s) :
          /\ \A i \in 1..n : s[i] \in ServiceChars
          /\ \/ n = Len(s)
             \/ /\ Len(s) >= n + 3
                /\ s[n + 1] = ":" /\ s[n + 2] = ":"
                /\ \A i \in (n + 3)..Len(s) : s[i] \in EnvChars

\* /^[A-Z][A-Z0-9_]*$/
keyPattern(s) ==
    /\ Len(s) >= 1
    /\ s[1] \in Upper
    /\ \A i \in 2..Len(s) : s[i] \in KeyTailChars

filterShhEnvEntries(entries) ==
    SelectSeq(entries,
              LAMBDA entry : servicePattern(entry.service) /\ keyPattern(entry.key))

\* the default comparison of Array.prototype.sort(): by UTF-16 code units,
\* a proper prefix first
RECURSIVE StrLess(_, _)
StrLess(a, b) ==
    IF Len(b) = 0 THEN FALSE
    ELSE IF Len(a) = 0 THEN TRUE
    ELSE IF Code(a[1]) # Code(b[1]) THEN Code(a[1]) < Code(b[1])
    ELSE StrLess(Tail(a), Tail(b))

RECURSIVE InsertSorted(_, _)
InsertSorted(sorted, k) ==
    IF Len(sorted) = 0 THEN <<k>>
    ELSE IF StrLess(k, sorted[1]) THEN <<k>> \o sorted
    ELSE <<sorted[1]>> \o InsertSorted(Tail(sorted), k)

RECURSIVE Sort(_)
Sort(keys) ==
    IF Len(keys) = 0 THEN <<>>
    ELSE InsertSorted(Sort(SubSeq(keys, 1, Len(keys) - 1)), keys[Len(keys)])

\* a Map<string, string[]>: the sequence of its [service, keys] pairs in
\* insertion order
MapHas(groups, service) == \E i \in 1..Len(groups) : groups[i].service = service

MapGet(groups, service) ==
    groups[CHOOSE i \in 1..Len(groups) : groups[i].service = service].keys

\* groups.get(service) || []
GetOrEmpty(groups, service) ==
    IF MapHas(groups, service) THEN MapGet(groups, service) ELSE <<>>

MapSet(groups, service, keys) ==
    IF MapHas(groups, service)
    THEN [i \in 1..Len(groups) |->
            IF groups[i].service = service
            THEN [service |-> service, keys |-> keys]
            ELSE groups[i]]
    ELSE Append(groups, [service |-> service, keys |-> keys])

\* the first loop of groupByService over entries[1..n]
RECURSIVE Collect(_, _)
Collect(entries, n) ==
    IF n = 0 THEN <<>>
    ELSE LET groups == Collect(entries, n - 1)
             entry == entries[n]
         IN  MapSet(groups, entry.service,
                    Append(GetOrEmpty(groups, entry.service), entry.key))

\* the grouping without the sort
groupByService_unsorted(entries) == Collect(entries, Len(entries))

groupByService(entries) ==
    LET groups == Collect(entries, Len(entries))
    IN  [i \in 1..Len(groups) |->
            [service |-> groups[i].service, keys |-> Sort(groups[i].keys)]]

----------------------------------------------------------------------------
(* lib/secrets: the store wrappers *)

\* a Record<string, string>: a function from its keys to their values
EmptyObject == [k \in {} |-> <<>>]

Put(obj, key, value) ==
    [k \in DOMAIN obj \cup {key} |-> IF k = key THEN value ELSE obj[k]]

\* Object.assign(target, source)
ObjectAssign(target, source) ==
    [k \in DOMAIN target \cup DOMAIN source |->
        IF k \in DOMAIN source THEN source[k] ELSE target[k]]

\* Bun.secrets.get({service, name}): Some(value), or None for null
SecretsGet(store, service, name) ==
    IF \E item \in store : item.service = service /\ item.key = name
    THEN Some((CHOOSE item \in store : item.service = service /\ item.key = name).value)
    ELSE None

\* Bun.secrets.set({service, name, value})
SecretsSet(store, service, name, value) ==
    {item \in store : ~(item.service = service /\ item.key = name)}
        \cup {[service |-> service, key |-> name, value |-> value]}

\* a delete that takes every key of the service with it
SecretsDelete_allKeys(store, service, name) ==
    {item \in store : item.service # service}

\* Bun.secrets.delete({service, name})
SecretsDelete(store, service, name) ==
    {item \in store : ~(item.service = service /\ item.key = name)}

\* the loop of getSecretsForService over keys[1..n]
\* the loop with the empty string written for a null
RECURSIVE GetLoop_nullAsEmpty(_, _, _, _)
GetLoop_nullAsEmpty(store, serviceName, keys, n) ==
    IF n = 0 THEN EmptyObject
    ELSE LET result == GetLoop_nullAsEmpty(store, serviceName, keys, n - 1)
             value == SecretsGet(store, serviceName, keys[n])
         IN  IF value # None THEN Put(result, keys[n], value[1])
             ELSE Put(result, keys[n], <<>>)

RECURSIVE GetLoop(_, _, _, _)
GetLoop(store, serviceName, keys, n) ==
    IF n = 0 THEN EmptyObject
    ELSE LET result == GetLoop(store, serviceName, keys, n - 1)
             value == SecretsGet(store, serviceName, keys[n])
         IN  IF value # None THEN Put(result, keys[n], value[1]) ELSE result

getSecretsForService(store, serviceName, keys) ==
    GetLoop(store, serviceName, keys, Len(keys))

----------------------------------------------------------------------------
(* commands/run: the flat merge *)

\* the layers in the order the root comes last
RunLayers_rootLast(service, env) ==
    IF Truthy(service)
    THEN IF Truthy(env)
         THEN <<service[1], service[1] \o SEP \o env[1], <<"_">>>>
         ELSE <<service[1], <<"_">>>>
    ELSE <<<<"_">>>>

\* layers of getMergedSecrets
RunLayers(service, env) ==
    IF Truthy(service)
    THEN IF Truthy(env)
         THEN <<<<"_">>, service[1], service[1] \o SEP \o env[1]>>
         ELSE <<<<"_">>, service[1]>>
    ELSE <<<<"_">>>>

\* the merge loop with the arguments of Object.assign swapped
RECURSIVE MergeLoop_keepFirst(_, _, _, _)
MergeLoop_keepFirst(store, groups, layers, n) ==
    IF n = 0 THEN EmptyObject
    ELSE LET merged == MergeLoop_keepFirst(store, groups, layers, n - 1)
             keys == GetOrEmpty(groups, layers[n])
         IN  IF Len(keys) > 0
             THEN ObjectAssign(getSecretsForService(store, layers[n], keys), merged)
             ELSE merged

\* the merge loop of getMergedSecrets over layers[1..n]
RECURSIVE MergeLoop(_, _, _, _)
MergeLoop(store, groups, layers, n) ==
    IF n = 0 THEN EmptyObject
    ELSE LET merged == MergeLoop(store, groups, layers, n - 1)
             keys == GetOrEmpty(groups, layers[n])
         IN  IF Len(keys) > 0
             THEN ObjectAssign(merged, getSecretsForService(store, layers[n], keys))
             ELSE merged

\* allEntries is what enumerateSecrets returned, store what the store holds
\* when the values are fetched
getMergedSecrets(allEntries, store, service, env) ==
    LET entries == filterShhEnvEntries(allEntries)
        groups == groupByService(entries)
        layers == RunLayers(service, env)
    IN  [groups |-> groups, layers |-> layers,
         merged |-> MergeLoop(store, groups, layers, Len(layers))]

\* a call of Bun.secrets as the store sees it: start when it is issued,
\* done when its promise resolves, throw when it rejects
StoreCall(ev, call, service, key) ==
    [ev |-> ev, call |-> call, service |-> service, key |-> key]

\* the gets of the merge loop over layers[1..n], in the order of the two
\* for loops: one per key of every layer the group map lists
RECURSIVE LayerGets(_, _, _)
LayerGets(groups, layers, n) ==
    IF n = 0 THEN <<>>
    ELSE LET keys == GetOrEmpty(groups, layers[n])
         IN  LayerGets(groups, layers, n - 1)
                \o [i \in 1..Len(keys) |-> [service |-> layers[n], key |-> keys[i]]]

\* the gets with the failed one issued again
GetEvents_retry(gets, failAt) ==
    LET F[i \in 0..Len(gets)] ==
            IF i = 0 THEN <<>>
            ELSE F[i - 1]
                 \o (IF i = failAt
                     THEN <<StoreCall("start", "get", gets[i].service, gets[i].key),
                            StoreCall("throw", "get", gets[i].service, gets[i].key)>>
                     ELSE <<>>)
                 \o <<StoreCall("start", "get", gets[i].service, gets[i].key),
                       StoreCall("done", "get", gets[i].service, gets[i].key)>>
    IN  F[Len(gets)]

\* the gets issued together and awaited afterwards
GetEvents_batched(gets, failAt) ==
    [i \in 1..Len(gets) |-> StoreCall("start", "get", gets[i].service, gets[i].key)]
        \o [i \in 1..Len(gets) |-> StoreCall("done", "get", gets[i].service, gets[i].key)]

\* await Bun.secrets.get(...) in the for loops: a get is issued when the
\* one before it has resolved; the get numbered failAt rejects and ends
\* the loops (failAt = 0: none rejects)
GetEvents(gets, failAt) ==
    LET last == IF failAt = 0 THEN Len(gets) ELSE failAt
        F[i \in 0..last] ==
            IF i = 0 THEN <<>>
            ELSE F[i - 1]
                 \o <<StoreCall("start", "get", gets[i].service, gets[i].key),
                       StoreCall(IF i = failAt THEN "throw" ELSE "done", "get",
                                 gets[i].service, gets[i].key)>>
    IN  F[last]

\* the call of set, get or delete of a command that got past validation
OneCall(call, service, key) ==
    <<StoreCall("start", call, service, key), StoreCall("done", call, service, key)>>

----------------------------------------------------------------------------
(* commands/list: the annotated merge and the tree *)

Blank(pos) == [kind |-> "blank", text |-> <<>>, strike |-> FALSE, last |-> FALSE, pos |-> pos]
Header(name, pos) ==
    [kind |-> "header", text |-> name, strike |-> FALSE, last |-> FALSE, pos |-> pos]
\* prefix "└── " when last, "├── " otherwise; strike: the key is wrapped in
\* STRIKETHROUGH_START / STRIKETHROUGH_END
Branch(key, isLast, strike, pos) ==
    [kind |-> "branch", text |-> key, strike |-> strike, last |-> isLast, pos |-> pos]
Message(text) ==
    [kind |-> "message", text |-> <<text>>, strike |-> FALSE, last |-> FALSE, pos |-> 0]

printTree(keys, pos) ==
    [i \in 1..Len(keys) |-> Branch(keys[i], i = Len(keys), FALSE, pos)]

\* the key of the overriddenKeys set: `${layer}:${key}`
OverrideKey(layer, key) == layer \o <<":">> \o key

\* the tree with the corner drawn at the first key
printTreeWithOverrides_cornerFirst(keys, layer, overriddenKeys, pos) ==
    [i \in 1..Len(keys) |->
        Branch(keys[i], i = 1, OverrideKey(layer, keys[i]) \in overriddenKeys, pos)]

printTreeWithOverrides(keys, layer, overriddenKeys, pos) ==
    [i \in 1..Len(keys) |->
        Branch(keys[i], i = Len(keys), OverrideKey(layer, keys[i]) \in overriddenKeys, pos)]

\* the layers of the view without the layer of the environment
ListLayers_noEnv(service, env) == <<<<"_">>, service[1]>>

\* layers of printMergedView
ListLayers(service, env) ==
    IF Truthy(env)
    THEN <<<<"_">>, service[1], service[1] \o SEP \o env[1]>>
    ELSE <<<<"_">>, service[1]>>

\* the winning layers taken over every namespace of the group map
WinningLayer_allGroups(groups, layers, n) ==
    LET names == [i \in 1..Len(groups) |-> groups[i].service]
        F[m \in 0..Len(names)] ==
            IF m = 0 THEN EmptyObject
            ELSE LET keys == GetOrEmpty(groups, names[m])
                 IN  ObjectAssign(F[m - 1],
                        [k \in {keys[i] : i \in 1..Len(keys)} |-> names[m]])
    IN  F[Len(names)]

\* the first loop of printMergedView over layers[1..n]: winningLayer
RECURSIVE WinningLayer(_, _, _)
WinningLayer(groups, layers, n) ==
    IF n = 0 THEN EmptyObject
    ELSE LET keys == GetOrEmpty(groups, layers[n])
         IN  ObjectAssign(WinningLayer(groups, layers, n - 1),
                          [k \in {keys[i] : i \in 1..Len(keys)} |-> layers[n]])

\* the second loop run over every layer, a key counted as overridden when
\* another layer lists it too
OverriddenKeys_anyOther(groups, layers) ==
    UNION { LET keys == GetOrEmpty(groups, layers[i])
            IN  {OverrideKey(layers[i], keys[j]) :
                    j \in {x \in 1..Len(keys) :
                            \E o \in 1..Len(layers) :
                                /\ layers[o] # layers[i]
                                /\ \E y \in 1..Len(GetOrEmpty(groups, layers[o])) :
                                      GetOrEmpty(groups, layers[o])[y] = keys[x]}}
            : i \in 1..Len(layers) }

\* the second loop: every layer but the last one
OverriddenKeys(groups, layers) ==
    LET winningLayer == WinningLayer(groups, layers, Len(layers))
    IN  UNION { LET keys == GetOrEmpty(groups, layers[i])
                IN  {OverrideKey(layers[i], keys[j]) :
                        j \in {x \in 1..Len(keys) : winningLayer[keys[x]] # layers[i]}}
                : i \in 1..(Len(layers) - 1) }

\* the third loop with the root skipped too when it has no keys
RECURSIVE PrintLayers_skipEmptyRoot(_, _, _, _)
PrintLayers_skipEmptyRoot(groups, layers, overriddenKeys, n) ==
    IF n = 0 THEN <<>>
    ELSE LET before == PrintLayers_skipEmptyRoot(groups, layers, overriddenKeys, n - 1)
             layer == layers[n]
             keys == GetOrEmpty(groups, layer)
             sep == IF n > 1 THEN <<Blank(n)>> ELSE <<>>
         IN  IF Len(keys) = 0 THEN before \o sep
             ELSE before \o sep \o <<Header(layer, n)>>
                    \o printTreeWithOverrides(keys, layer, overriddenKeys, n)

\* the third loop over layers[1..n]: the printed lines
RECURSIVE PrintLayers(_, _, _, _)
PrintLayers(groups, layers, overriddenKeys, n) ==
    IF n = 0 THEN <<>>
    ELSE LET before == PrintLayers(groups, layers, overriddenKeys, n - 1)
             layer == layers[n]
             keys == GetOrEmpty(groups, layer)
             sep == IF n > 1 THEN <<Blank(n)>> ELSE <<>>
         IN  IF Len(keys) = 0 /\ layer # <<"_">> THEN before \o sep
             ELSE IF Len(keys) = 0 THEN before \o sep \o <<Header(layer, n)>>
             ELSE before \o sep \o <<Header(layer, n)>>
                    \o printTreeWithOverrides(keys, layer, overriddenKeys, n)

printMergedView(groups, service, env) ==
    LET layers == ListLayers(service, env)
    IN  PrintLayers(groups, layers, OverriddenKeys(groups, layers), Len(layers))

\* String.prototype.localeCompare on the characters of a namespace: the
\* primary weight of a character (punctuation, then digits, then letters)
\* and, for equal primary weights, lower case before upper case
Primary(c) ==
    CASE c = " " -> 0 [] c = "_" -> 1 [] c = "-" -> 2 [] c = ":" -> 3
      [] c = "." -> 4 [] c = "1" -> 10 [] c \in {"a", "A"} -> 20
      [] c \in {"b", "B"} -> 21 [] c = "d" -> 23

Tertiary(c) == IF c \in Upper THEN 1 ELSE 0

RECURSIVE PrimaryLess(_, _)
PrimaryLess(a, b) ==
    IF Len(b) = 0 THEN FALSE
    ELSE IF Len(a) = 0 THEN TRUE
    ELSE IF Primary(a[1]) # Primary(b[1]) THEN Primary(a[1]) < Primary(b[1])
    ELSE PrimaryLess(Tail(a), Tail(b))

RECURSIVE TertiaryLess(_, _)
TertiaryLess(a, b) ==
    IF Len(b) = 0 THEN FALSE
    ELSE IF Len(a) = 0 THEN TRUE
    ELSE IF Tertiary(a[1]) # Tertiary(b[1]) THEN Tertiary(a[1]) < Tertiary(b[1])
    ELSE TertiaryLess(Tail(a), Tail(b))

LocaleLess(a, b) ==
    \/ PrimaryLess(a, b)
    \/ ~PrimaryLess(b, a) /\ TertiaryLess(a, b)

\* the comparator with the code-unit order in the place of localeCompare
ServiceLess_codeUnits(a, b) ==
    IF a = <<"_">> THEN TRUE
    ELSE IF b = <<"_">> THEN FALSE
    ELSE StrLess(a, b)

\* the comparator of printAllServices: _ first, then localeCompare
ServiceLess(a, b) ==
    IF a = <<"_">> THEN TRUE
    ELSE IF b = <<"_">> THEN FALSE
    ELSE LocaleLess(a, b)

RECURSIVE InsertService(_, _)
InsertService(sorted, svc) ==
    IF Len(sorted) = 0 THEN <<svc>>
    ELSE IF ServiceLess(svc, sorted[1]) THEN <<svc>> \o sorted
    ELSE <<sorted[1]>> \o InsertService(Tail(sorted), svc)

RECURSIVE SortServices(_)
SortServices(names) ==
    IF Len(names) = 0 THEN <<>>
    ELSE InsertService(SortServices(SubSeq(names, 1, Len(names) - 1)), names[Len(names)])

\* the loop of printAllServices over sortedServices[1..n]
RECURSIVE PrintServices(_, _, _)
PrintServices(groups, sortedServices, n) ==
    IF n = 0 THEN <<>>
    ELSE LET svc == sortedServices[n]
             before == PrintServices(groups, sortedServices, n - 1)
         IN  IF svc = <<>> THEN before
             ELSE before \o (IF n > 1 THEN <<Blank(n)>> ELSE <<>>)
                    \o <<Header(svc, n)>> \o printTree(GetOrEmpty(groups, svc), n)

printAllServices(groups) ==
    LET sortedServices == SortServices([i \in 1..Len(groups) |-> groups[i].service])
    IN  PrintServices(groups, sortedServices, Len(sortedServices))

----------------------------------------------------------------------------
(* Library specification of the codec: Init draws the arguments, the       *)
(* actions call buildServiceName / parseServiceName as the unit tests do   *)

RECURSIVE JoinSep(_)
JoinSep(ps) ==
    IF Len(ps) = 0 THEN <<>>
    ELSE IF Len(ps) = 1 THEN ps[1]
    ELSE ps[1] \o SEP \o JoinSep(Tail(ps))

ArgStrings == StringsOver(Sigma, MaxLen)
Parts == StringsOver(PartSigma, MaxPartLen)
StoredNames == {JoinSep(ps) : ps \in UNION {[1..k -> Parts] : k \in 1..MaxParts}}

NoCall == [op |-> "none"]

CodecInputs ==
    [kind : {"build"}, service : Opt(ArgStrings), env : Opt(ArgStrings), name : {<<>>}]
    \cup [kind : {"parse"}, service : {None}, env : {None}, name : StoredNames]
    \cup [kind : {"key"}, service : {None}, env : {None}, name : ArgStrings]

InitCodec ==
    /\ keychain = {}
    /\ inp \in CodecInputs
    /\ out = NoCall

\* buildServiceName(service, env)
CallBuild ==
    /\ inp.kind = "build"
    /\ out' = [op |-> "build", built |-> buildServiceName(inp.service, inp.env)]
    /\ UNCHANGED <<keychain, inp>>

\* parseServiceName(name)
CallParse ==
    /\ inp.kind = "parse"
    /\ out' = [op |-> "parse", parsed |-> parseServiceName(inp.name)]
    /\ UNCHANGED <<keychain, inp>>

\* parseServiceName(buildServiceName(service, env))
CallParseBuilt ==
    /\ out.op = "build"
    /\ out.built.err = "none"
    /\ out' = [op |-> "roundtrip", parsed |-> parseServiceName(out.built.value[1])]
    /\ UNCHANGED <<keychain, inp>>

\* validateKey(key)
CallValidateKey ==
    /\ inp.kind = "key"
    /\ out' = [op |-> "validateKey",
               err |-> IF validateKey(inp.name) THEN "none" ELSE "Invalid key name"]
    /\ UNCHANGED <<keychain, inp>>

NextCodec == CallBuild \/ CallParse \/ CallParseBuilt \/ CallValidateKey

SpecCodec == InitCodec /\ [][NextCodec]_vars

----------------------------------------------------------------------------
(* Library specification of lib/enumerate: Init draws a list of entries,   *)
(* the actions call filterShhEnvEntries / groupByService on it             *)

MaxEntries == 3     \* length of an entry list

Entry(service, key) == [service |-> service, key |-> key]

\* entries of this tool and foreign credentials of the same store
EntryPool ==
    { Entry(<<"_">>, <<"B">>), Entry(<<"_">>, <<"A">>),
      Entry(<<"a">>, <<"A">>), Entry(<<"a">>, <<"A", "1">>),
      Entry(<<"a", ":", ":", "d">>, <<"A">>),
      Entry(<<"a", " ", "b">>, <<"A">>),
      Entry(<<"a">>, <<"a">>),
      Entry(<<"a", ":", ":", "d", ":", ":", "a">>, <<"B">>) }

\* namespaces in both cases of the letters and with punctuation
NamespacePool ==
    {Entry(n, <<"A">>) : n \in { <<"_">>, <<"a">>, <<"A">>, <<"B">>, <<"1">>,
                                  <<"a", ":", ":", "d">>, <<"a", ".">>,
                                  <<"_", ":", ":", "a">> }}

EnumInputs ==
    UNION {[1..k -> EntryPool] : k \in 0..MaxEntries}
    \cup UNION {[1..k -> NamespacePool] : k \in 0..MaxEntries}
    \cup {<<Entry(n, <<"A">>)>> : n \in StoredNames}
    \cup {<<Entry(<<"a">>, k)>> : k \in ArgStrings}

InitEnum ==
    /\ keychain = {}
    /\ inp \in [kind : {"entries"}, entries : EnumInputs]
    /\ out = NoCall

\* filterShhEnvEntries(entries)
CallFilter ==
    /\ inp.kind = "entries"
    /\ out' = [op |-> "filter", entries |-> filterShhEnvEntries(inp.entries)]
    /\ UNCHANGED <<keychain, inp>>

\* groupByService(entries)
CallGroup ==
    /\ inp.kind = "entries"
    /\ out' = [op |-> "group", groups |-> groupByService(inp.entries)]
    /\ UNCHANGED <<keychain, inp>>

\* printAllServices(groupByService(filterShhEnvEntries(entries)))
CallPrintAll ==
    /\ inp.kind = "entries"
    /\ LET groups == groupByService(filterShhEnvEntries(inp.entries))
       IN  out' = [op |-> "printAll", groups |-> groups, stdout |-> printAllServices(groups)]
    /\ UNCHANGED <<keychain, inp>>

NextEnum == CallFilter \/ CallGroup \/ CallPrintAll

SpecEnum == InitEnum /\ [][NextEnum]_vars

----------------------------------------------------------------------------
(* The commands over the keychain.  Each command is one process: it runs   *)
(* to its exit, leaving its output and exit status in out; the next        *)
(* command starts from the prompt.                                         *)

MaxItems == 3       \* items in the keychain

\* the --service / --env options of a command: every combination of no
\* service, the root and a service with no environment and an environment,
\* a malformed service and a malformed environment
Requests ==
    ({None, Some(<<"_">>), Some(<<"a">>)} \X {None, Some(<<"d">>)})
        \cup {<<Some(<<"a", " ">>), None>>, <<Some(<<"a">>), Some(<<".">>)>>}
KeyArgs == {<<"A">>, <<"B">>, <<"a">>}
Values == {<<"x">>, <<"y">>}

\* credentials other applications keep in the same store
ForeignItems ==
    { [service |-> <<"a", " ", "b">>, key |-> <<"A">>, value |-> <<"z">>],
      [service |-> <<"a">>, key |-> <<"a">>, value |-> <<"z">>] }

\* the store enumerates its items in an order of its own
RECURSIVE StoreOrder(_)
StoreOrder(store) ==
    IF store = {} THEN <<>>
    ELSE LET item == CHOOSE item \in store : TRUE
         IN  <<Entry(item.service, item.key)>> \o StoreOrder(store \ {item})

Reverse(seq) == [i \in 1..Len(seq) |-> seq[Len(seq) + 1 - i]]

\* the orders in which the native listing may show the items of the store
Listings(store) == {StoreOrder(store), Reverse(StoreOrder(store))}

\* the environment the command inherits: a variable named as a secret is,
\* and one no secret is named as
ProcessEnv == Put(Put(EmptyObject, <<"A">>, <<"p">>), <<"H">>, <<"h">>)

\* the spread with the inherited environment written last
ChildEnv_inheritedLast(processEnv, extraEnv) == ObjectAssign(extraEnv, processEnv)

\* { ...process.env, ...extraEnv }
ChildEnv(processEnv, extraEnv) == ObjectAssign(processEnv, extraEnv)

\* the child of run: its environment and the exit status it ends with
NoChild == [spawned |-> FALSE, env |-> EmptyObject, status |-> 0]
Spawned(env, status) == [spawned |-> TRUE, env |-> env, status |-> status]

Result(op, key, service, env) ==
    [op |-> op, key |-> key, service |-> service, env |-> env,
     exit |-> 0, stdout |-> <<>>, stderr |-> "",
     groups |-> <<>>, layers |-> <<>>, overlay |-> EmptyObject, vanished |-> {},
     child |-> NoChild, calls |-> <<>>]

Init ==
    /\ keychain = {}
    /\ inp = [kind |-> "command"]
    /\ out = NoCall

\* the `${service}::${env}` / service || "_" of the success and error texts
Target(service, env) ==
    IF Truthy(env)
    THEN (IF service = None THEN <<"undefined">> ELSE service[1]) \o SEP \o env[1]
    ELSE IF Truthy(service) THEN service[1] ELSE <<"_">>

\* shh-env set <key> --service --env; value is the --value option or, when
\* it is missing, the line read from stdin
SetCmd(key, value, service, env) ==
    /\ out = NoCall
    /\ LET r == Result("set", key, service, env)
           name == buildServiceName(service, env)
       IN  IF value = <<>>
           THEN /\ out' = [r EXCEPT !.exit = 1, !.stderr = "No value provided"]
                /\ UNCHANGED keychain
           ELSE IF ~validateKey(key)
           THEN /\ out' = [r EXCEPT !.exit = 1, !.stderr = "Invalid key name"]
                /\ UNCHANGED keychain
           ELSE IF name.err # "none"
           THEN /\ out' = [r EXCEPT !.exit = 1, !.stderr = name.err]
                /\ UNCHANGED keychain
           ELSE /\ Cardinality(SecretsSet(keychain, name.value[1], key, value)) <= MaxItems
                /\ keychain' = SecretsSet(keychain, name.value[1], key, value)
                /\ out' = [r EXCEPT !.stdout = <<Message("Set"), Header(Target(service, env), 0)>>,
                                     !.calls = OneCall("set", name.value[1], key)]
    /\ UNCHANGED inp

\* shh-env get <key> --service --env
GetCmd(key, service, env) ==
    /\ out = NoCall
    /\ LET r == Result("get", key, service, env)
           name == buildServiceName(service, env)
       IN  IF ~validateKey(key)
           THEN out' = [r EXCEPT !.exit = 1, !.stderr = "Invalid key name"]
           ELSE IF name.err # "none"
           THEN out' = [r EXCEPT !.exit = 1, !.stderr = name.err]
           ELSE LET value == SecretsGet(keychain, name.value[1], key)
                    calls == OneCall("get", name.value[1], key)
                IN  IF value = None
                    THEN out' = [r EXCEPT !.exit = 1, !.stderr = "not found",
                                          !.calls = calls]
                    ELSE out' = [r EXCEPT !.stdout = <<Header(value[1], 0)>>,
                                          !.calls = calls]
    /\ UNCHANGED <<keychain, inp>>

\* shh-env delete <key> --service --env
DeleteCmd(key, service, env) ==
    /\ out = NoCall
    /\ LET r == Result("delete", key, service, env)
           name == buildServiceName(service, env)
       IN  IF ~validateKey(key)
           THEN /\ out' = [r EXCEPT !.exit = 1, !.stderr = "Invalid key name"]
                /\ UNCHANGED keychain
           ELSE IF name.err # "none"
           THEN /\ out' = [r EXCEPT !.exit = 1, !.stderr = name.err]
                /\ UNCHANGED keychain
           ELSE /\ keychain' = SecretsDelete(keychain, name.value[1], key)
                /\ out' = [r EXCEPT !.stdout = <<Message("Deleted"), Header(Target(service, env), 0)>>,
                                     !.calls = OneCall("delete", name.value[1], key)]
    /\ UNCHANGED inp

\* shh-env list --service --env
ListCmd(service, env) ==
    /\ out = NoCall
    /\ \E allEntries \in Listings(keychain) :
       \E groups \in {groupByService(filterShhEnvEntries(allEntries))} :
          LET r == Result("list", <<>>, service, env)
          IN  IF Len(groups) = 0
              THEN out' = [r EXCEPT !.stdout = <<Message("No secrets found")>>]
              ELSE IF ~Truthy(service)
              THEN out' = [r EXCEPT !.op = "listAll", !.groups = groups,
                                    !.stdout = printAllServices(groups)]
              ELSE out' = [r EXCEPT !.op = "listMerged", !.groups = groups,
                                    !.layers = ListLayers(service, env),
                                    !.stdout = printMergedView(groups, service, env)]
    /\ UNCHANGED <<keychain, inp>>

\* shh-env run --service --env -- command: the listing is taken first, the
\* values are fetched afterwards; vanished are the items another process
\* deleted in between; exitCode is the exit status of the child
RunCmd(service, env, exitCode) ==
    /\ out = NoCall
    /\ \E allEntries \in Listings(keychain) :
       \E vanished \in {{}} \cup {{item} : item \in keychain} :
       \E m \in {getMergedSecrets(allEntries, keychain \ vanished, service, env)} :
       \E gets \in {LayerGets(m.groups, m.layers, Len(m.layers))} :
          LET r == Result("run", <<>>, service, env)
              child == Spawned(ChildEnv(ProcessEnv, m.merged), exitCode)
          IN  out' = [r EXCEPT !.groups = m.groups, !.layers = m.layers,
                               !.overlay = m.merged, !.vanished = vanished,
                               !.calls = GetEvents(gets, 0),
                               !.child = child, !.exit = child.status]
    /\ UNCHANGED <<keychain, inp>>

\* shh-env run when the store rejects the get numbered failAt: the error
\* leaves getMergedSecrets and the catch of run prints it and exits
RunCmdFault(service, env, failAt) ==
    /\ out = NoCall
    /\ \E allEntries \in Listings(keychain) :
       \E groups \in {groupByService(filterShhEnvEntries(allEntries))} :
       \E gets \in {LayerGets(groups, RunLayers(service, env), Len(RunLayers(service, env)))} :
          LET r == Result("run", <<>>, service, env)
              layers == RunLayers(service, env)
          IN  /\ failAt \in 1..Len(gets)
              /\ out' = [r EXCEPT !.groups = groups, !.layers = layers,
                                   !.calls = GetEvents(gets, failAt),
                                   !.exit = 1, !.stderr = "Store error"]
    /\ UNCHANGED <<keychain, inp>>

\* another application stores a credential of its own
ForeignWrite(item) ==
    /\ out = NoCall
    /\ item \notin keychain
    /\ Cardinality(keychain) < MaxItems
    /\ keychain' = keychain \cup {item}
    /\ UNCHANGED <<inp, out>>

\* the process has exited; the shell prompts for the next command
Prompt ==
    /\ out # NoCall
    /\ out' = NoCall
    /\ UNCHANGED <<keychain, inp>>

Next ==
    \/ \E key \in KeyArgs, value \in Values \cup {<<>>}, rq \in Requests :
          SetCmd(key, value, rq[1], rq[2])
    \/ \E key \in KeyArgs, rq \in Requests : GetCmd(key, rq[1], rq[2])
    \/ \E key \in KeyArgs, rq \in Requests : DeleteCmd(key, rq[1], rq[2])
    \/ \E rq \in Requests : ListCmd(rq[1], rq[2])
    \/ \E rq \in Requests, exitCode \in {0, 2} : RunCmd(rq[1], rq[2], exitCode)
    \/ \E item \in ForeignItems : ForeignWrite(item)
    \/ Prompt

Spec == Init /\ [][Next]_vars

----------------------------------------------------------------------------
(* One command on a store that earlier commands left: Init draws the       *)
(* store, the actions are the commands, with the requests of Spec and the  *)
(* empty strings an option can carry                                       *)

StorePool ==
    [service : {<<"_">>, <<"a">>, <<"a", ":", ":", "d">>},
     key : {<<"A">>, <<"B">>}, value : Values]

\* the store holds one value for a (service, key) pair
Stores ==
    {store \in SUBSET StorePool :
        /\ Cardinality(store) <= MaxItems
        /\ \A i, j \in store : (i.service = j.service /\ i.key = j.key) => i = j}

StoreRequests ==
    Requests \cup {<<Some(<<>>), None>>, <<Some(<<"a">>), Some(<<>>)>>}

InitStore ==
    /\ keychain \in Stores
    /\ inp = [kind |-> "command"]
    /\ out = NoCall

NextStore ==
    \/ \E key \in KeyArgs, value \in Values \cup {<<>>}, rq \in StoreRequests :
          SetCmd(key, value, rq[1], rq[2])
    \/ \E key \in KeyArgs, rq \in StoreRequests : GetCmd(key, rq[1], rq[2])
    \/ \E key \in KeyArgs, rq \in StoreRequests : DeleteCmd(key, rq[1], rq[2])
    \/ \E rq \in StoreRequests : ListCmd(rq[1], rq[2])
    \/ \E rq \in StoreRequests, exitCode \in {0, 2} : RunCmd(rq[1], rq[2], exitCode)
    \/ \E rq \in StoreRequests, failAt \in 1..(2 * MaxItems) :
          RunCmdFault(rq[1], rq[2], failAt)

SpecStore == InitStore /\ [][NextStore]_vars

----------------------------------------------------------------------------
(* lib/enumerate: the parsers of the native listings.  The text of the     *)
(* listing command is the sequence of its lines; a line is what the        *)
(* parser's tests see of it: t the prefix it starts with, v the text its   *)
(* pattern captures (None when the pattern does not match), w the second   *)
(* capture of a cmdkey Target line.                                        *)

MaxLines == 5       \* lines of a listing

Line(t, v, w) == [t |-> t, v |-> v, w |-> w]

GENP == <<"g", "e", "n", "p">>

\* currentClass === '"genp"' && currentService && currentAccount
MacValid(st) == st.cls = GENP /\ st.svc # <<>> /\ st.acct # <<>>

MacFlush(st) ==
    IF MacValid(st) THEN Append(st.entries, Entry(st.svc, st.acct)) ELSE st.entries

\* the body of the loop with the service and the account kept across a
\* class: line
MacStep_noReset(st, line) ==
    IF line.t = "class"
    THEN [st EXCEPT !.cls = IF line.v = None THEN <<>> ELSE line.v[1],
                    !.entries = MacFlush(st)]
    ELSE IF line.t = "svce"
    THEN (IF line.v # None THEN [st EXCEPT !.svc = line.v[1]] ELSE st)
    ELSE IF line.t = "acct"
    THEN (IF line.v # None THEN [st EXCEPT !.acct = line.v[1]] ELSE st)
    ELSE st

\* the body of the loop of enumerateMacOS on one line
MacStep(st, line) ==
    IF line.t = "class"
    THEN [cls |-> IF line.v = None THEN <<>> ELSE line.v[1],
          svc |-> <<>>, acct |-> <<>>, entries |-> MacFlush(st)]
    ELSE IF line.t = "svce"
    THEN (IF line.v # None THEN [st EXCEPT !.svc = line.v[1]] ELSE st)
    ELSE IF line.t = "acct"
    THEN (IF line.v # None THEN [st EXCEPT !.acct = line.v[1]] ELSE st)
    ELSE st

RECURSIVE MacLoop(_, _)
MacLoop(lines, n) ==
    IF n = 0 THEN [cls |-> <<>>, svc |-> <<>>, acct |-> <<>>, entries |-> <<>>]
    ELSE LET st == MacLoop(lines, n - 1) IN MacStep(st, lines[n])

\* security dump-keychain 2>/dev/null || true, parsed
enumerateMacOS(lines) == MacFlush(MacLoop(lines, Len(lines)))

\* currentService && currentAccount
LinuxValid(st) == st.svc # <<>> /\ st.acct # <<>>

LinuxFlush(st) ==
    IF LinuxValid(st) THEN Append(st.entries, Entry(st.svc, st.acct)) ELSE st.entries

\* the body of the loop of enumerateLinux on one line
LinuxStep(st, line) ==
    IF line.t = "["
    THEN [svc |-> <<>>, acct |-> <<>>, entries |-> LinuxFlush(st)]
    ELSE IF line.t = "attribute.service = "
    THEN [st EXCEPT !.svc = line.v[1]]
    ELSE IF line.t = "attribute.account = "
    THEN [st EXCEPT !.acct = line.v[1]]
    ELSE st

RECURSIVE LinuxLoop(_, _)
LinuxLoop(lines, n) ==
    IF n = 0 THEN [svc |-> <<>>, acct |-> <<>>, entries |-> <<>>]
    ELSE LET st == LinuxLoop(lines, n - 1) IN LinuxStep(st, lines[n])

\* the loop without the flush that follows it
enumerateLinux_noLastFlush(lines) == LinuxLoop(lines, Len(lines)).entries

\* secret-tool search --all ... 2>/dev/null || true, parsed
enumerateLinux(lines) == LinuxFlush(LinuxLoop(lines, Len(lines)))

\* the loop of enumerateWindows over lines[1..n]
RECURSIVE WindowsLoop(_, _)
WindowsLoop(lines, n) ==
    IF n = 0 THEN <<>>
    ELSE LET line == lines[n]
             entries == WindowsLoop(lines, n - 1)
         IN  IF line.t = "Target:" /\ line.v # None /\ line.w # None
             THEN Append(entries, Entry(line.v[1], line.w[1]))
             ELSE entries

\* cmdkey /list 2>nul, parsed; the shell throws when the command exits
\* with a failure and the catch leaves the list empty
enumerateWindows(status, lines) ==
    IF status = "ok" THEN WindowsLoop(lines, Len(lines)) ELSE <<>>

Listed(entries) == [err |-> "none", entries |-> entries]

\* enumerateSecrets with the failure of cmdkey let through
enumerateSecrets_uncaught(platform, status, lines) ==
    IF platform = "darwin" THEN Listed(enumerateMacOS(lines))
    ELSE IF platform = "linux" THEN Listed(enumerateLinux(lines))
    ELSE IF platform = "win32"
    THEN (IF status = "ok" THEN Listed(enumerateWindows(status, lines))
          ELSE [err |-> "Command failed", entries |-> <<>>])
    ELSE [err |-> "Unsupported platform", entries |-> <<>>]

\* status is how the listing command ended, lines what it wrote to its
\* standard output until then
enumerateSecrets(platform, status, lines) ==
    IF platform = "darwin" THEN Listed(enumerateMacOS(lines))
    ELSE IF platform = "linux" THEN Listed(enumerateLinux(lines))
    ELSE IF platform = "win32" THEN Listed(enumerateWindows(status, lines))
    ELSE [err |-> "Unsupported platform", entries |-> <<>>]

----------------------------------------------------------------------------
(* Library specification of the listing: Init draws the platform, the way  *)
(* the listing command ends and the lines it writes; the actions call      *)
(* enumerateSecrets, and list and run on a host whose listing fails        *)

MacLines ==
    { Line("class", Some(GENP), None), Line("class", Some(<<"i", "n", "e", "t">>), None),
      Line("svce", Some(<<"a">>), None), Line("svce", None, None),
      Line("acct", Some(<<"A">>), None), Line("other", None, None) }

LinuxLines ==
    { Line("[", None, None),
      Line("attribute.service = ", Some(<<"a">>), None),
      Line("attribute.service = ", Some(<<"_">>), None),
      Line("attribute.account = ", Some(<<"A">>), None),
      Line("other", None, None) }

WindowsLines ==
    { Line("Target:", Some(<<"a">>), Some(<<"A">>)),
      Line("Target:", Some(<<"_">>), Some(<<"A">>)),
      Line("Target:", None, None),
      Line("other", None, None) }

Dump(platform, status, lines) ==
    [kind |-> "dump", platform |-> platform, status |-> status, lines |-> lines]

\* the lines the listing command of the platform writes
PlatformLines(platform) ==
    IF platform = "darwin" THEN MacLines
    ELSE IF platform = "linux" THEN LinuxLines
    ELSE WindowsLines

\* the items the store holds while the listing is taken
DumpStore ==
    { [service |-> <<"_">>, key |-> <<"A">>, value |-> <<"x">>],
      [service |-> <<"a">>, key |-> <<"A">>, value |-> <<"y">>] }

\* a command that is not installed writes nothing
InitParse ==
    /\ keychain = DumpStore
    /\ out = NoCall
    /\ \/ \E platform \in {"darwin", "linux", "win32"}, status \in {"ok", "failed"},
             k \in 0..MaxLines :
             \E lines \in [1..k -> PlatformLines(platform)] :
                inp = Dump(platform, status, lines)
       \/ \E platform \in {"darwin", "linux", "win32", "freebsd"} :
             inp = Dump(platform, "unavailable", <<>>)

\* enumerateSecrets()
CallEnumerate ==
    /\ inp.kind = "dump"
    /\ out = NoCall
    /\ out' = [op |-> "enumerate",
               listed |-> enumerateSecrets(inp.platform, inp.status, inp.lines)]
    /\ UNCHANGED <<keychain, inp>>

\* shh-env list on a host whose listing command fails or is missing
ListDump ==
    /\ inp.kind = "dump"
    /\ inp.status # "ok"
    /\ out = NoCall
    /\ LET r == Result("list", <<>>, None, None)
           listed == enumerateSecrets(inp.platform, inp.status, inp.lines)
           groups == groupByService(filterShhEnvEntries(listed.entries))
       IN  IF listed.err # "none"
           THEN out' = [r EXCEPT !.exit = 1, !.stderr = listed.err]
           ELSE IF Len(groups) = 0
           THEN out' = [r EXCEPT !.stdout = <<Message("No secrets found")>>]
           ELSE out' = [r EXCEPT !.op = "listAll", !.groups = groups,
                                 !.stdout = printAllServices(groups)]
    /\ UNCHANGED <<keychain, inp>>

\* shh-env run --service a -- command on such a host
RunDump(exitCode) ==
    /\ inp.kind = "dump"
    /\ inp.status # "ok"
    /\ out = NoCall
    /\ LET service == Some(<<"a">>)
           r == Result("run", <<>>, service, None)
           listed == enumerateSecrets(inp.platform, inp.status, inp.lines)
           m == getMergedSecrets(listed.entries, keychain, service, None)
       IN  IF listed.err # "none"
           THEN out' = [r EXCEPT !.exit = 1, !.stderr = listed.err]
           ELSE LET child == Spawned(ChildEnv(ProcessEnv, m.merged), exitCode)
                    gets == LayerGets(m.groups, m.layers, Len(m.layers))
                IN  out' = [r EXCEPT !.groups = m.groups, !.layers = m.layers,
                                     !.overlay = m.merged, !.child = child,
                                     !.calls = GetEvents(gets, 0),
                                     !.exit = child.status]
    /\ UNCHANGED <<keychain, inp>>

NextParse == CallEnumerate \/ ListDump \/ (\E exitCode \in {0, 2} : RunDump(exitCode))

SpecParse == InitParse /\ [][NextParse]_vars

----------------------------------------------------------------------------
(* The grammars of the data model, as the claims state them *)

ServiceGrammar(s) ==
    \/ s = <<"_">>
    \/ Len(s) >= 1 /\ \A i \in 1..Len(s) : s[i] \in Lower \cup Upper \cup Digit \cup {".", "_", "-"}

EnvironmentGrammar(s) ==
    Len(s) >= 1 /\ \A i \in 1..Len(s) : s[i] \in Lower \cup Upper \cup Digit \cup {"_", "-"}

KeyGrammar(s) ==
    /\ Len(s) >= 1
    /\ s[1] \in Upper
    /\ \A i \in 2..Len(s) : s[i] \in Upper \cup Digit \cup {"_"}

\* the number of occurrences of "::" found scanning from the left
RECURSIVE CountSep(_, _)
CountSep(s, i) ==
    IF i >= Len(s) THEN 0
    ELSE IF s[i] = ":" /\ s[i + 1] = ":" THEN 1 + CountSep(s, i + 2)
    ELSE CountSep(s, i + 1)

----------------------------------------------------------------------------
(* The layers and the group map, as the claims state them *)

Supplied(o) == o # None /\ o[1] # <<>>

NamespaceGrammar(n) ==
    \/ n = <<"_">>
    \/ ServiceGrammar(n)
    \/ \E i \in 2..Len(n) - 2 :
          /\ n[i] = ":" /\ n[i + 1] = ":"
          /\ ServiceGrammar(SubSeq(n, 1, i - 1))
          /\ EnvironmentGrammar(SubSeq(n, i + 2, Len(n)))

\* [_, service, service::env]
LayerSequence(service, env) ==
    IF ~Supplied(service) THEN << <<"_">> >>
    ELSE IF ~Supplied(env) THEN << <<"_">>, service[1] >>
    ELSE << <<"_">>, service[1], service[1] \o <<":", ":">> \o env[1] >>

\* the keys the group map lists under a namespace: the keys of the items of
\* the store in that namespace that are entries of this tool
ListedKeys(layer) ==
    {item.key : item \in {i \in keychain :
                            /\ i.service = layer
                            /\ NamespaceGrammar(i.service)
                            /\ KeyGrammar(i.key)}}

\* the position of the last layer of the sequence that lists the key
LastListing(layers, key) ==
    CHOOSE i \in 1..Len(layers) :
        /\ key \in ListedKeys(layers[i])
        /\ \A j \in (i + 1)..Len(layers) : key \notin ListedKeys(layers[j])

BranchLines(lines, pos, key) ==
    {n \in 1..Len(lines) :
        lines[n].kind = "branch" /\ lines[n].pos = pos /\ lines[n].text = key}

----------------------------------------------------------------------------
(* C1: flat merge of run.  For every request and every store in which each *)
(* key listed under an active layer has a stored value, the overlay holds  *)
(* exactly the keys listed under at least one active layer, each with the  *)
(* value stored in the last layer of [_, service, service::env] that lists *)
(* it.                                                                     *)
C1_FlatMerge ==
    out.op = "run" =>
        LET layers == LayerSequence(out.service, out.env)
            store == keychain \ out.vanished
            Stored(layer, key) == {i \in store : i.service = layer /\ i.key = key}
            listed == UNION {ListedKeys(layers[i]) : i \in 1..Len(layers)}
        IN  (\A i \in 1..Len(layers) : \A k \in ListedKeys(layers[i]) :
                Stored(layers[i], k) # {})
            => /\ DOMAIN out.overlay = listed
               /\ \A k \in listed :
                     \E item \in Stored(layers[LastListing(layers, k)], k) :
                        out.overlay[k] = item.value

\* the end-to-end example: one key of the root only, one key of the service
\* overridden by the environment
C1_Witness ==
    /\ out.op = "run"
    /\ out.service = Some(<<"a">>) /\ out.env = Some(<<"d">>)
    /\ out.vanished = {}
    /\ keychain = { [service |-> <<"_">>, key |-> <<"A">>, value |-> <<"x">>],
                    [service |-> <<"a">>, key |-> <<"B">>, value |-> <<"x">>],
                    [service |-> <<"a", ":", ":", "d">>, key |-> <<"B">>, value |-> <<"y">>] }
    /\ DOMAIN out.overlay = {<<"A">>, <<"B">>}
    /\ out.overlay[<<"B">>] = <<"y">>

(* C2 as stated: in the merged view an occurrence of key k in layer L is   *)
(* printed inside the strikethrough wrapper if and only if a later layer   *)
(* of the sequence also lists k; the occurrence in the last layer listing  *)
(* k, and every key listed in exactly one layer, is printed plain.         *)
C2_ShadowedIffLaterLayer ==
    out.op = "listMerged" =>
        LET layers == LayerSequence(out.service, out.env)
        IN  \A i \in 1..Len(layers) : \A k \in ListedKeys(layers[i]) :
                /\ BranchLines(out.stdout, i, k) # {}
                /\ \A n \in BranchLines(out.stdout, i, k) :
                      out.stdout[n].strike
                          <=> \E j \in (i + 1)..Len(layers) : k \in ListedKeys(layers[j])

(* C2 as amended: an occurrence of key k in layer L is printed inside the  *)
(* strikethrough wrapper if and only if a later layer of the sequence that *)
(* is another namespace than L also lists k (with --service _ the root     *)
(* layer stands twice in the sequence and both printings are plain).       *)
C2_ShadowedIffLaterNamespace ==
    out.op = "listMerged" =>
        LET layers == LayerSequence(out.service, out.env)
        IN  \A i \in 1..Len(layers) : \A k \in ListedKeys(layers[i]) :
                /\ BranchLines(out.stdout, i, k) # {}
                /\ \A n \in BranchLines(out.stdout, i, k) :
                      out.stdout[n].strike
                          <=> \E j \in (i + 1)..Len(layers) :
                                 layers[j] # layers[i] /\ k \in ListedKeys(layers[j])

\* a key of all three layers: struck in the first two, plain in the last
C2_Witness ==
    /\ out.op = "listMerged"
    /\ out.service = Some(<<"a">>) /\ out.env = Some(<<"d">>)
    /\ \A i \in 1..3 : <<"A">> \in ListedKeys(out.layers[i])
    /\ \A i \in 1..2 : \A n \in BranchLines(out.stdout, i, <<"A">>) : out.stdout[n].strike
    /\ \E n \in BranchLines(out.stdout, 3, <<"A">>) : ~out.stdout[n].strike

(* C3: the annotated merge considers the active layers only.  A key of an  *)
(* active layer is marked shadowed only when another layer of the          *)
(* request's sequence lists it, never because a namespace outside the      *)
(* sequence does.                                                          *)
C3_ShadowedByActiveLayerOnly ==
    out.op = "listMerged" =>
        \A n \in 1..Len(out.stdout) :
            (out.stdout[n].kind = "branch" /\ out.stdout[n].strike)
            => \E j \in 1..Len(out.layers) :
                  /\ out.layers[j] # out.layers[out.stdout[n].pos]
                  /\ out.stdout[n].text \in ListedKeys(out.layers[j])

\* the key of the root is also in a::d, which list --service a leaves out:
\* it is printed plain
C3_Witness ==
    /\ out.op = "listMerged"
    /\ out.service = Some(<<"a">>) /\ out.env = None
    /\ <<"A">> \in ListedKeys(<<"_">>)
    /\ <<"A">> \in ListedKeys(<<"a", ":", ":", "d">>)
    /\ <<"A">> \notin ListedKeys(<<"a">>)
    /\ \E n \in BranchLines(out.stdout, 1, <<"A">>) : ~out.stdout[n].strike

(* C4: layer resolution.  The sequence is [_] when no service is supplied  *)
(* (an environment without a service adds no layer), [_, service] when     *)
(* only a service is supplied and [_, service, service::env] when both     *)
(* are; it is never empty and its first element is always "_".             *)
C4_LayerResolution ==
    out.op \in {"run", "listMerged"} =>
        /\ out.layers = LayerSequence(out.service, out.env)
        /\ Len(out.layers) >= 1
        /\ out.layers[1] = <<"_">>
        /\ ~Supplied(out.service) => out.layers = << <<"_">> >>

\* an environment without a service
C4_Witness ==
    /\ out.op = "run"
    /\ out.service = None /\ out.env = Some(<<"d">>)
    /\ out.layers = << <<"_">> >>

----------------------------------------------------------------------------
(* C5: round trip.  For every service s and environment e that pass        *)
(* validation, parseServiceName(buildServiceName(s, e)) is (service: s,    *)
(* env: e), and parseServiceName(buildServiceName(s)) is (service: s)      *)
(* with no environment.                                                    *)
C5_RoundTrip ==
    (out.op = "roundtrip" /\ inp.service # None /\ validateService(inp.service[1]))
    => /\ (inp.env # None /\ validateEnv(inp.env[1]))
            => out.parsed = [service |-> inp.service[1], env |-> Some(inp.env[1])]
       /\ inp.env = None
            => out.parsed = [service |-> inp.service[1], env |-> None]

C5_Witness ==
    /\ out.op = "roundtrip"
    /\ inp.service = Some(<<"a", ".">>)
    /\ inp.env = Some(<<"A", "_">>)
    /\ out.parsed = [service |-> <<"a", ".">>, env |-> Some(<<"A", "_">>)]

(* C6: buildServiceName returns "_" when neither argument is supplied, the *)
(* service verbatim when only a valid service is supplied, and             *)
(* service::environment when a valid service and a valid environment are   *)
(* supplied.                                                               *)
C6_BuildResult ==
    out.op = "build" =>
        /\ (inp.service = None /\ inp.env = None)
              => out.built = [err |-> "none", value |-> Some(<<"_">>)]
        /\ (inp.service # None /\ ServiceGrammar(inp.service[1]) /\ inp.env = None)
              => out.built = [err |-> "none", value |-> inp.service]
        /\ (inp.service # None /\ ServiceGrammar(inp.service[1])
               /\ inp.env # None /\ EnvironmentGrammar(inp.env[1]))
              => out.built = [err |-> "none",
                              value |-> Some(inp.service[1] \o <<":", ":">> \o inp.env[1])]

C6_Witness ==
    /\ out.op = "build"
    /\ inp.service = Some(<<"a">>)
    /\ inp.env = Some(<<"1">>)
    /\ out.built.value = Some(<<"a", ":", ":", "1">>)

(* C7: buildServiceName fails with a validation error, and returns no      *)
(* namespace, whenever the service string supplied to it violates the      *)
(* Service grammar or the environment string supplied to it violates the   *)
(* Environment grammar, the empty string included.                         *)
C7_BuildRejectsMalformed ==
    (/\ out.op = "build"
     /\ \/ inp.service # None /\ ~ServiceGrammar(inp.service[1])
        \/ inp.env # None /\ ~EnvironmentGrammar(inp.env[1]))
    => /\ out.built.err \in {"Invalid service name", "Invalid env name"}
       /\ out.built.value = None

(* C8: parseServiceName returns (service, environment) only when splitting *)
(* the name on "::" yields exactly two non-empty parts; for every other    *)
(* name it returns the whole name as the service with no environment.  It  *)
(* never fails.                                                            *)
C8_ParseArity ==
    out.op = "parse" =>
        LET n == inp.name
            twoParts ==
                \E i \in 1..Len(n) - 1 :
                    /\ n[i] = ":" /\ n[i + 1] = ":"
                    /\ i > 1 /\ i + 1 < Len(n)
                    /\ CountSep(n, 1) = 1
                    /\ CountSep(SubSeq(n, 1, i), 1) = 0
                    /\ out.parsed = [service |-> SubSeq(n, 1, i - 1),
                                     env |-> Some(SubSeq(n, i + 2, Len(n)))]
        IN  /\ out.parsed.env # None => twoParts
            /\ ~twoParts => out.parsed = [service |-> n, env |-> None]

C8_Witness ==
    /\ out.op = "parse"
    /\ inp.name = <<"a", ":", ":", "a", ":", ":", "a">>
    /\ out.parsed = [service |-> inp.name, env |-> None]

(* C9: filterShhEnvEntries returns exactly the subsequence of its input,   *)
(* in the original order and with the entries unchanged, of the entries    *)
(* whose namespace is "_" or a Service-grammar string optionally followed  *)
(* by "::" and an Environment-grammar string, and whose key matches the    *)
(* Key grammar.                                                            *)
C9_FilterExact ==
    out.op = "filter" =>
        out.entries = SelectSeq(inp.entries,
                                LAMBDA e : NamespaceGrammar(e.service) /\ KeyGrammar(e.key))

\* a foreign entry between two entries of the tool is dropped, the two kept
\* in their order
C9_Witness ==
    /\ out.op = "filter"
    /\ Len(inp.entries) = 3
    /\ inp.entries[2].service = <<"a", ":", ":", "d", ":", ":", "a">>
    /\ out.entries = <<inp.entries[1], inp.entries[3]>>
    /\ inp.entries[1] # inp.entries[3]

(* C10: groupByService maps each namespace that occurs in the entries, and *)
(* no other, to the sequence of exactly the keys of that namespace's       *)
(* entries in ascending order; an empty entry list yields an empty map.    *)
RECURSIVE LexLeq(_, _)
LexLeq(a, b) ==
    \/ a = <<>>
    \/ /\ b # <<>>
       /\ \/ Code(a[1]) < Code(b[1])
          \/ a[1] = b[1] /\ LexLeq(Tail(a), Tail(b))

Occurrences(seq, x) == Cardinality({i \in 1..Len(seq) : seq[i] = x})

C10_GroupSorted ==
    out.op = "group" =>
        LET es == inp.entries
            gs == out.groups
        IN  /\ {gs[i].service : i \in 1..Len(gs)} = {es[i].service : i \in 1..Len(es)}
            /\ \A i, j \in 1..Len(gs) : gs[i].service = gs[j].service => i = j
            /\ \A i \in 1..Len(gs) :
                  /\ \A a, b \in 1..Len(gs[i].keys) :
                        a < b => LexLeq(gs[i].keys[a], gs[i].keys[b])
                  /\ \A k \in {es[x].key : x \in 1..Len(es)} :
                        Occurrences(gs[i].keys, k) =
                            Cardinality({x \in 1..Len(es) :
                                            es[x] = Entry(gs[i].service, k)})
                  /\ \A a \in 1..Len(gs[i].keys) :
                        \E x \in 1..Len(es) : es[x] = Entry(gs[i].service, gs[i].keys[a])
            /\ es = <<>> => gs = <<>>

C10_Witness ==
    /\ out.op = "group"
    /\ inp.entries = <<Entry(<<"_">>, <<"B">>), Entry(<<"a">>, <<"A">>),
                       Entry(<<"_">>, <<"A">>)>>
    /\ out.groups = <<[service |-> <<"_">>, keys |-> <<<<"A">>, <<"B">>>>],
                      [service |-> <<"a">>, keys |-> <<<<"A">>>>]>>

----------------------------------------------------------------------------
(* C11: validateKey returns for a key exactly when the key is non-empty,   *)
(* starts with an uppercase ASCII letter and continues with uppercase      *)
(* letters, digits and underscores only; for every other string it throws  *)
(* the validation error.                                                   *)
C11_ValidateKeyExact ==
    out.op = "validateKey" =>
        /\ out.err \in {"none", "Invalid key name"}
        /\ out.err = "none" <=> KeyGrammar(inp.name)

\* a key with a digit in its tail has been validated and accepted
C11_Witness ==
    /\ out.op = "validateKey"
    /\ inp.name = <<"A", "1">>
    /\ out.err = "none"

----------------------------------------------------------------------------
\* a namespace of the form _::<environment>
RootWithEnv(n) == Len(n) >= 4 /\ SubSeq(n, 1, 3) = <<"_", ":", ":">>

(* C12: the sentinel _ never carries an environment: no call of            *)
(* buildServiceName returns a namespace of the form _::<environment>, a    *)
(* request of the service _ with an environment included, and no entry     *)
(* kept by filterShhEnvEntries has such a namespace.                       *)
C12_RootHasNoEnv ==
    /\ out.op = "build" /\ out.built.err = "none" => ~RootWithEnv(out.built.value[1])
    /\ out.op = "filter" =>
           \A i \in 1..Len(out.entries) : ~RootWithEnv(out.entries[i].service)

----------------------------------------------------------------------------
(* The listing, as the claims state it *)

SupportedPlatforms == {"darwin", "linux", "win32"}

\* the text holds no line that shows a namespace or a key
NoFieldLine(lines) == \A i \in 1..Len(lines) : lines[i].t = "class" \/ lines[i].v = None

\* list and run went on as they do with an empty store
AsWithEmptyStore ==
    /\ out.op \in {"list", "listAll"} =>
           out.op = "list" /\ out.exit = 0 /\ out.stdout = <<Message("No secrets found")>>
    /\ out.op = "run" =>
           /\ out.overlay = EmptyObject
           /\ out.child.spawned /\ out.child.env = ProcessEnv
           /\ out.exit = out.child.status /\ out.stderr = ""

----------------------------------------------------------------------------
\* the request names a service or an environment outside its grammar
Malformed(service, env) ==
    \/ service # None /\ ~ServiceGrammar(service[1])
    \/ env # None /\ ~EnvironmentGrammar(env[1])

ValidationErrors == {"Invalid service name", "Invalid env name", "Invalid key name"}

(* C14: set, get, delete, list and run, given a service or an environment  *)
(* outside its grammar, fail with a validation error and go no further:    *)
(* the store is not touched, no tree is printed, no child is started.      *)
C14_MalformedReported ==
    ( /\ out.op \in {"set", "get", "delete", "list", "listAll", "listMerged", "run"}
      /\ Malformed(out.service, out.env)
      /\ out.stderr # "No value provided" ) =>
        /\ out.exit # 0
        /\ out.stderr \in ValidationErrors
        /\ out.stdout = <<>>
        /\ ~out.child.spawned

----------------------------------------------------------------------------
(* The store, as the claims state it *)

\* the namespace a request addresses
RequestNs(service, env) ==
    IF Supplied(env) THEN service[1] \o <<":", ":">> \o env[1]
    ELSE IF Supplied(service) THEN service[1]
    ELSE <<"_">>

\* the values the store holds for the pair (namespace, key)
ValuesAt(store, ns, key) ==
    {item.value : item \in {i \in store : i.service = ns /\ i.key = key}}

\* the pairs a request of the tool can address
ToolPairs(store) ==
    {<<item.service, item.key>> :
        item \in {i \in store : NamespaceGrammar(i.service) /\ KeyGrammar(i.key)}}

(* C15: a successful set leaves exactly its value at its (namespace, key)  *)
(* pair and a successful delete leaves nothing there; the value at a pair  *)
(* changes in no other step, so a get prints the value of the last set to  *)
(* its pair that no delete followed, and otherwise reports not found with  *)
(* a non-zero exit status.                                                 *)
C15_GetFollowsSetDelete ==
    [][ /\ (out'.op = "set" /\ out'.exit = 0) =>
              \A value \in Values :
                 SetCmd(out'.key, value, out'.service, out'.env) =>
                    ValuesAt(keychain', RequestNs(out'.service, out'.env), out'.key) = {value}
        /\ (out'.op = "delete" /\ out'.exit = 0) =>
              ValuesAt(keychain', RequestNs(out'.service, out'.env), out'.key) = {}
        /\ \A pair \in ToolPairs(keychain) \cup ToolPairs(keychain') :
              ValuesAt(keychain', pair[1], pair[2]) # ValuesAt(keychain, pair[1], pair[2]) =>
                 /\ out'.op \in {"set", "delete"}
                 /\ out'.exit = 0
                 /\ out'.key = pair[2]
                 /\ RequestNs(out'.service, out'.env) = pair[1]
        /\ ( /\ out'.op = "get"
             /\ out'.stderr \notin ValidationErrors \cup {"--env requires --service"} ) =>
              LET held == ValuesAt(keychain, RequestNs(out'.service, out'.env), out'.key)
              IN  IF held = {}
                  THEN out'.exit # 0 /\ out'.stderr = "not found" /\ out'.stdout = <<>>
                  ELSE /\ out'.exit = 0
                       /\ \E value \in held :
                             held = {value} /\ out'.stdout = <<Header(value, 0)>>
      ]_vars

\* get printed the value set last for a::d while the same key holds
\* another value in a
C15_Witness ==
    /\ out.op = "get" /\ out.exit = 0
    /\ out.key = <<"A">> /\ out.service = Some(<<"a">>) /\ out.env = Some(<<"d">>)
    /\ out.stdout = <<Header(<<"y">>, 0)>>
    /\ [service |-> <<"a">>, key |-> <<"A">>, value |-> <<"x">>] \in keychain

----------------------------------------------------------------------------
(* C16: in the output of list, the header of a namespace with n >= 1 keys  *)
(* is followed by exactly n branch lines, one per key in ascending order,  *)
(* the first n - 1 drawn with the tee and the last with the corner.        *)
C16_TreeShape ==
    out.op \in {"listAll", "listMerged"} =>
        \A h \in 1..Len(out.stdout) :
            out.stdout[h].kind = "header" =>
                LET keys == ListedKeys(out.stdout[h].text)
                    n == Cardinality(keys)
                IN  /\ h + n <= Len(out.stdout)
                    /\ \A i \in 1..n :
                          /\ out.stdout[h + i].kind = "branch"
                          /\ out.stdout[h + i].last = (i = n)
                    /\ {out.stdout[h + i].text : i \in 1..n} = keys
                    /\ \A i \in 1..(n - 1) :
                          /\ LexLeq(out.stdout[h + i].text, out.stdout[h + i + 1].text)
                          /\ out.stdout[h + i].text # out.stdout[h + i + 1].text
                    /\ h + n < Len(out.stdout) => out.stdout[h + n + 1].kind # "branch"

\* the merged view printed a namespace of two keys: a tee, then a corner
C16_Witness ==
    /\ out.op = "listMerged"
    /\ \E h \in 1..Len(out.stdout) :
          /\ out.stdout[h].kind = "header"
          /\ h + 2 <= Len(out.stdout)
          /\ out.stdout[h + 1].kind = "branch" /\ ~out.stdout[h + 1].last
          /\ out.stdout[h + 2].kind = "branch" /\ out.stdout[h + 2].last

----------------------------------------------------------------------------
(* C17: run ends with the exit status of its child, whatever that status   *)
(* is, and the child sees the overlay laid over the inherited environment: *)
(* a variable of the overlay has the overlay's value, any other inherited  *)
(* variable keeps its own.                                                 *)
C17_ChildStatusAndEnv ==
    (out.op = "run" /\ out.child.spawned) =>
        /\ out.exit = out.child.status
        /\ DOMAIN out.child.env = DOMAIN ProcessEnv \cup DOMAIN out.overlay
        /\ \A k \in DOMAIN out.child.env :
              out.child.env[k] =
                  IF k \in DOMAIN out.overlay THEN out.overlay[k] ELSE ProcessEnv[k]

\* the child ended with status 2 after seeing the secret A in the place of
\* the inherited variable A
C17_Witness ==
    /\ out.op = "run" /\ out.child.spawned
    /\ out.child.status = 2 /\ out.exit = 2
    /\ <<"A">> \in DOMAIN out.overlay
    /\ out.overlay[<<"A">>] # ProcessEnv[<<"A">>]
    /\ out.child.env[<<"H">>] = <<"h">>

----------------------------------------------------------------------------
(* C18: in the output of list, two namespaces printed one after the other  *)
(* are separated by exactly one blank line, and no blank line comes before *)
(* the first namespace or after the last; in the merged view this holds    *)
(* whichever layers are present.                                           *)
C18_OneBlankBetween ==
    out.op \in {"listAll", "listMerged"} =>
        LET lines == out.stdout
        IN  /\ Len(lines) >= 1 =>
                  lines[1].kind # "blank" /\ lines[Len(lines)].kind # "blank"
            /\ \A i \in 1..(Len(lines) - 1) :
                  /\ lines[i].kind = "blank" => lines[i + 1].kind = "header"
                  /\ lines[i + 1].kind = "header" => lines[i].kind = "blank"

----------------------------------------------------------------------------
\* the lines of a kind the merged view printed for the layer at a position
LinesOf(kind, pos) ==
    {i \in 1..Len(out.stdout) : out.stdout[i].kind = kind /\ out.stdout[i].pos = pos}

(* C19: in the merged view the root layer _ prints its header even when it *)
(* has no keys, and any other layer that the group map does not list       *)
(* prints neither a header nor a branch.                                   *)
C19_RootHeaderAlways ==
    out.op = "listMerged" =>
        \A i \in 1..Len(out.layers) :
            LET layer == out.layers[i]
                shown == layer = <<"_">> \/ ListedKeys(layer) # {}
            IN  /\ Cardinality(LinesOf("header", i)) = IF shown THEN 1 ELSE 0
                /\ \A h \in LinesOf("header", i) : out.stdout[h].text = layer
                /\ Cardinality(LinesOf("branch", i)) = Cardinality(ListedKeys(layer))

\* list --service a --env d with keys under a only: the header of the
\* empty root is printed, nothing is for a::d
C19_Witness ==
    /\ out.op = "listMerged"
    /\ Len(out.layers) = 3
    /\ ListedKeys(<<"_">>) = {}
    /\ ListedKeys(out.layers[2]) # {}
    /\ ListedKeys(out.layers[3]) = {}
    /\ out.stdout[1] = Header(<<"_">>, 1)
    /\ LinesOf("header", 3) = {}

----------------------------------------------------------------------------
(* The records of a listing, as the claims state them: a record starts at  *)
(* a boundary line (class: on darwin, [ on linux, Target: on win32) and    *)
(* runs up to the next one; the lines before the first boundary are a      *)
(* record of their own.                                                    *)

Boundary(platform, line) ==
    \/ platform = "darwin" /\ line.t = "class"
    \/ platform = "linux" /\ line.t = "["
    \/ platform = "win32" /\ line.t = "Target:"

RecStarts(platform, lines) ==
    {i \in 1..Len(lines) : i = 1 \/ Boundary(platform, lines[i])}

RecEnd(platform, lines, lo) ==
    LET later == {j \in RecStarts(platform, lines) : j > lo}
    IN  IF later = {} THEN Len(lines)
        ELSE (CHOOSE j \in later : \A k \in later : j <= k) - 1

\* the namespaces and the keys shown by the lines of the record at lo
RecNamespaces(platform, lines, lo) ==
    {lines[i].v[1] : i \in {j \in lo..RecEnd(platform, lines, lo) :
        /\ lines[j].t \in {"svce", "attribute.service = ", "Target:"}
        /\ lines[j].v # None}}

RecKeys(platform, lines, lo) ==
    {lines[i].v[1] : i \in {j \in lo..RecEnd(platform, lines, lo) :
        /\ lines[j].t \in {"acct", "attribute.account = "}
        /\ lines[j].v # None}}
    \cup {lines[i].w[1] : i \in {j \in lo..RecEnd(platform, lines, lo) :
        lines[j].t = "Target:" /\ lines[j].w # None}}

\* the records with both fields and, on darwin, of class genp
Qualifying(platform, lines) ==
    {lo \in RecStarts(platform, lines) :
        /\ RecNamespaces(platform, lines, lo) # {}
        /\ RecKeys(platform, lines, lo) # {}
        /\ platform = "darwin" => lines[lo] = Line("class", Some(GENP), None)}

\* the parser read the text: the command's failure did not discard it
Parsed ==
    /\ inp.kind = "dump"
    /\ out.op = "enumerate"
    /\ inp.platform \in {"darwin", "linux"} \/ (inp.platform = "win32" /\ inp.status = "ok")

(* C20: a parser emits one entry for each record that shows both a         *)
(* namespace and a key (and, on darwin, is of class genp), in the order of *)
(* the records, and none for any other record; the last record of the      *)
(* text, which no boundary line follows, is emitted too.                   *)
C20_OneEntryPerRecord ==
    Parsed =>
        LET records == Qualifying(inp.platform, inp.lines)
            entries == out.listed.entries
        IN  /\ Len(entries) = Cardinality(records)
            /\ \A lo \in records :
                  LET k == Cardinality({j \in records : j <= lo})
                  IN  /\ entries[k].service \in RecNamespaces(inp.platform, inp.lines, lo)
                      /\ entries[k].key \in RecKeys(inp.platform, inp.lines, lo)

\* secret-tool wrote two records, the second one ending the text, and
\* both were emitted
C20_Witness ==
    /\ Parsed /\ inp.platform = "linux"
    /\ Len(inp.lines) = 5
    /\ inp.lines[3].t = "["
    /\ inp.lines[5].t = "attribute.account = "
    /\ out.listed.entries = <<Entry(<<"a">>, <<"A">>), Entry(<<"_">>, <<"A">>)>>

----------------------------------------------------------------------------
\* the positions of the layers that list the key and whose get returned a
\* value: the item was still in the store when it was fetched
Fetched(layers, store, key) ==
    {i \in 1..Len(layers) :
        key \in ListedKeys(layers[i]) /\ ValuesAt(store, layers[i], key) # {}}

(* C21: in the flat merge a key listed under a layer whose get returns     *)
(* null takes nothing from that layer: the overlay holds a key exactly     *)
(* when some layer's get returned a value for it, and then the value of    *)
(* the last such layer, an earlier layer's value staying in place when a   *)
(* later layer's get returns null.                                         *)
C21_AbsentContributesNothing ==
    (out.op = "run" /\ out.child.spawned) =>
        LET layers == LayerSequence(out.service, out.env)
            store == keychain \ out.vanished
        IN  \A key \in {item.key : item \in keychain} \cup DOMAIN out.overlay :
                LET fetched == Fetched(layers, store, key)
                IN  IF fetched = {} THEN key \notin DOMAIN out.overlay
                    ELSE /\ key \in DOMAIN out.overlay
                         /\ LET last == CHOOSE i \in fetched : \A j \in fetched : j <= i
                            IN  ValuesAt(store, layers[last], key) = {out.overlay[key]}

\* the item a/A vanished after the listing: its get returned null and the
\* value of the root stayed
C21_Witness ==
    /\ out.op = "run" /\ out.child.spawned
    /\ out.service = Some(<<"a">>) /\ out.env = None
    /\ out.vanished = {[service |-> <<"a">>, key |-> <<"A">>, value |-> <<"y">>]}
    /\ [service |-> <<"_">>, key |-> <<"A">>, value |-> <<"x">>] \in keychain
    /\ out.overlay = Put(EmptyObject, <<"A">>, <<"x">>)

----------------------------------------------------------------------------
\* the namespaces of the header lines, in the order printed
RECURSIVE HeaderNames(_)
HeaderNames(lines) ==
    IF Len(lines) = 0 THEN <<>>
    ELSE IF lines[1].kind = "header" THEN <<lines[1].text>> \o HeaderNames(Tail(lines))
    ELSE HeaderNames(Tail(lines))

\* every namespace of the group map is printed once, the root first
PrintedOnceRootFirst(names, groups) ==
    /\ Len(names) = Len(groups)
    /\ \A i \in 1..Len(groups) : Occurrences(names, groups[i].service) = 1
    /\ \A i \in 2..Len(names) : names[i] # <<"_">>

(* C22: list without a service prints every namespace once, the root _     *)
(* first when present and the others after it in ascending lexicographic   *)
(* order, the order of the keys.                                           *)
C22_NamespacesAscending ==
    out.op = "printAll" =>
        LET names == HeaderNames(out.stdout)
        IN  /\ PrintedOnceRootFirst(names, out.groups)
            /\ \A i \in 1..(Len(names) - 1) :
                  names[i] = <<"_">> \/ LexLeq(names[i], names[i + 1])

(* C22, amended: list without a service prints every namespace once, the   *)
(* root _ first when present and the others after it in the ascending      *)
(* order of localeCompare: letters compare without their case first (a     *)
(* before B), lower case before upper case on a tie, punctuation before    *)
(* digits before letters; this is not the code-unit order of the keys.     *)
C22_NamespacesCollated ==
    out.op = "printAll" =>
        LET names == HeaderNames(out.stdout)
        IN  /\ PrintedOnceRootFirst(names, out.groups)
            /\ \A i \in 1..(Len(names) - 1) :
                  names[i] = <<"_">> \/ LocaleLess(names[i], names[i + 1])

\* the root, a and B were listed in another order and printed _, a, B
C22_Witness ==
    /\ out.op = "printAll"
    /\ Len(inp.entries) = 3
    /\ inp.entries[1].service = <<"B">>
    /\ HeaderNames(out.stdout) = << <<"_">>, <<"a">>, <<"B">> >>

----------------------------------------------------------------------------
(* The calls of the store, as the claims state them *)

Throws(calls) == {i \in 1..Len(calls) : calls[i].ev = "throw"}
Starts(calls) == {i \in 1..Len(calls) : calls[i].ev = "start"}

\* the keys of a set in ascending order
Ascending(keys) ==
    CHOOSE seq \in [1..Cardinality(keys) -> keys] :
        \A i \in 1..(Cardinality(keys) - 1) : LexLeq(seq[i], seq[i + 1]) /\ seq[i] # seq[i + 1]

\* layer by layer, the keys each layer lists
RECURSIVE ListedPairs(_, _)
ListedPairs(layers, n) ==
    IF n = 0 THEN <<>>
    ELSE LET keys == Ascending(ListedKeys(layers[n]))
         IN  ListedPairs(layers, n - 1)
                \o [i \in 1..Len(keys) |-> [service |-> layers[n], key |-> keys[i]]]

(* C23: when a get of the store fails during the flat merge of run, the    *)
(* failure ends the merge at once: no get is issued after it, the failed   *)
(* get is not issued again, no child is started and run exits with a       *)
(* non-zero status.                                                        *)
C23_GetFailurePropagates ==
    (out.op = "run" /\ Throws(out.calls) # {}) =>
        /\ Throws(out.calls) = {Len(out.calls)}
        /\ out.calls[Len(out.calls) - 1] = [out.calls[Len(out.calls)] EXCEPT !.ev = "start"]
        /\ ~out.child.spawned
        /\ out.exit # 0
        /\ out.overlay = EmptyObject

\* the second of the listed gets failed and a third one was never issued
C23_Witness ==
    /\ out.op = "run"
    /\ Len(out.calls) = 4
    /\ out.calls[2].ev = "done" /\ out.calls[4].ev = "throw"
    /\ Len(ListedPairs(LayerSequence(out.service, out.env), Len(out.layers))) >= 3
    /\ out.exit = 1

----------------------------------------------------------------------------
\* the gets went one at a time: each start is followed by its own end
OneAtATime(calls) ==
    /\ Len(calls) % 2 = 0
    /\ \A i \in 1..Len(calls) :
          IF i % 2 = 1 THEN calls[i].ev = "start"
          ELSE calls[i] = [calls[i - 1] EXCEPT !.ev = "done"]

\* the (layer, key) pairs of the gets, in the order they were issued
Issued(calls) ==
    [i \in 1..(Len(calls) \div 2) |->
        [service |-> calls[2 * i - 1].service, key |-> calls[2 * i - 1].key]]

(* C24: during the flat merge the gets go one at a time, each starting     *)
(* after the one before it ended, in layer order and within a layer in     *)
(* ascending key order, a layer the group map does not list causing none;  *)
(* exactly one get is issued for each (layer, key) pair listed under the   *)
(* active layers.                                                          *)
C24_OneGetPerPair ==
    (out.op = "run" /\ out.child.spawned) =>
        LET issued == Issued(out.calls)
            listed == ListedPairs(LayerSequence(out.service, out.env), Len(out.layers))
        IN  /\ OneAtATime(out.calls)
            /\ \A i \in 1..Len(listed) : Occurrences(issued, listed[i]) = 1
            /\ \A i \in 1..Len(issued) : Occurrences(listed, issued[i]) >= 1

(* C24, amended: during the flat merge the gets go one at a time, each     *)
(* starting after the one before it ended; one get is issued for each      *)
(* layer of the layer sequence and each key listed under it, in layer      *)
(* order and within a layer in ascending key order, a layer the group map  *)
(* does not list causing none.  With the service _ the root stands twice   *)
(* in the sequence and each of its keys is fetched twice.                  *)
C24_OneGetPerListing ==
    (out.op = "run" /\ out.child.spawned) =>
        /\ OneAtATime(out.calls)
        /\ Issued(out.calls) =
              ListedPairs(LayerSequence(out.service, out.env), Len(out.layers))

\* run --service a fetched A of the root, which a overrides, then A and B of a
C24_Witness ==
    /\ out.op = "run" /\ out.child.spawned
    /\ out.service = Some(<<"a">>) /\ out.env = Some(<<"d">>)
    /\ Issued(out.calls) = << [service |-> <<"_">>, key |-> <<"A">>],
                              [service |-> <<"a">>, key |-> <<"A">>],
                              [service |-> <<"a">>, key |-> <<"B">>] >>

----------------------------------------------------------------------------
\* an option given outside its grammar, the empty string included, or an
\* environment given without a service
BadRequest(service, env) ==
    \/ Malformed(service, env)
    \/ env # None /\ service = None

(* C25: set, get and delete validate before they touch the store: when the *)
(* key, the service or the environment is outside its grammar, or an       *)
(* environment is given without a service, the command fails, no call of   *)
(* the store is made and the store is unchanged.                           *)
C25_ValidateBeforeStore ==
    [][ ( /\ out'.op \in {"set", "get", "delete"}
          /\ out'.stderr # "No value provided"
          /\ ~KeyGrammar(out'.key) \/ BadRequest(out'.service, out'.env) ) =>
            /\ out'.exit # 0
            /\ out'.calls = <<>>
            /\ keychain' = keychain
      ]_vars

----------------------------------------------------------------------------
\* the codec builds the namespace from a service, or from a service and an
\* environment, that pass validation
Buildable(n) ==
    \/ validateService(n) /\ buildServiceName(Some(n), None) = Built(n)
    \/ \E i \in 1..Len(n) :
          LET s == SubSeq(n, 1, i)
              e == SubSeq(n, i + 3, Len(n))
          IN  /\ validateService(s) /\ validateEnv(e)
              /\ buildServiceName(Some(s), Some(e)) = Built(n)

(* C26: the filter and the codec accept the same names: the filter keeps   *)
(* an entry exactly when its key passes validateKey and its namespace is   *)
(* one buildServiceName returns for a valid service, or a valid service    *)
(* and environment; and building the parse of a kept namespace gives the   *)
(* namespace back.                                                         *)
C26_FilterAgreesWithCodec ==
    out.op = "filter" =>
        /\ out.entries =
              SelectSeq(inp.entries,
                        LAMBDA entry : validateKey(entry.key) /\ Buildable(entry.service))
        /\ \A i \in 1..Len(out.entries) :
              LET n == out.entries[i].service
                  parsed == parseServiceName(n)
              IN  buildServiceName(Some(parsed.service), parsed.env) = Built(n)

\* an entry of _::a, which the codec builds from the service _ and the
\* environment a, was kept
C26_Witness ==
    /\ out.op = "filter"
    /\ \E i \in 1..Len(out.entries) : out.entries[i].service = <<"_", ":", ":", "a">>
    /\ buildServiceName(Some(<<"_">>), Some(<<"a">>)) = Built(<<"_", ":", ":", "a">>)

----------------------------------------------------------------------------
\* the branch lines of the view that show the key outside the strikethrough
VisibleLines(lines, key) ==
    {n \in 1..Len(lines) :
        lines[n].kind = "branch" /\ lines[n].text = key /\ ~lines[n].strike}

\* every key the group map lists has a value in the store
AllPresent(groups, store) ==
    \A i \in 1..Len(groups) : \A j \in 1..Len(groups[i].keys) :
        ValuesAt(store, groups[i].service, groups[i].keys[j]) # {}

(* C27: the flat merge and the annotated merge agree.  For the group map   *)
(* and the request of a run with a service, every listed key having a      *)
(* value in the store: a key is in the overlay exactly when the merged     *)
(* view of list for that group map and request shows it outside the        *)
(* strikethrough, and the value injected is the value stored in the layer  *)
(* under which the view shows it so.                                       *)
C27_MergesAgree ==
    (out.op = "run" /\ out.child.spawned /\ Truthy(out.service)) =>
        LET store == keychain \ out.vanished
            layers == ListLayers(out.service, out.env)
            lines == printMergedView(out.groups, out.service, out.env)
            keys == UNION {{out.groups[i].keys[j] : j \in 1..Len(out.groups[i].keys)} :
                            i \in 1..Len(out.groups)}
        IN  AllPresent(out.groups, store) =>
                \A key \in keys \cup DOMAIN out.overlay :
                    /\ key \in DOMAIN out.overlay <=> VisibleLines(lines, key) # {}
                    /\ \A n \in VisibleLines(lines, key) :
                          ValuesAt(store, layers[lines[n].pos], key) = {out.overlay[key]}

\* A is stored under the root and under the service: the view strikes the
\* root's A and shows the service's, and run injects the service's value
C27_Witness ==
    /\ out.op = "run" /\ out.child.spawned
    /\ out.service = Some(<<"a">>) /\ out.env = None
    /\ out.vanished = {}
    /\ keychain = { [service |-> <<"_">>, key |-> <<"A">>, value |-> <<"x">>],
                    [service |-> <<"a">>, key |-> <<"A">>, value |-> <<"y">>] }
    /\ out.overlay = Put(EmptyObject, <<"A">>, <<"y">>)
    /\ LET lines == printMergedView(out.groups, out.service, out.env)
       IN  /\ \E n \in 1..Len(lines) :
                  lines[n] = Branch(<<"A">>, TRUE, TRUE, 1)
           /\ VisibleLines(lines, <<"A">>) = BranchLines(lines, 2, <<"A">>)
           /\ VisibleLines(lines, <<"A">>) # {}

----------------------------------------------------------------------------
(* C28: no parser combines fields of different records: the namespace and  *)
(* the key of every emitted entry are shown by lines of one and the same   *)
(* record, a record of class genp on darwin, also when other records of    *)
(* the text lack one of the two fields or are of another class.            *)
C28_NoCrossRecordLeak ==
    Parsed =>
        \A k \in 1..Len(out.listed.entries) :
            \E lo \in Qualifying(inp.platform, inp.lines) :
                /\ out.listed.entries[k].service \in RecNamespaces(inp.platform, inp.lines, lo)
                /\ out.listed.entries[k].key \in RecKeys(inp.platform, inp.lines, lo)

\* security wrote a genp record with a service and no account, then a genp
\* record with an account and no service: nothing was emitted
C28_Witness ==
    /\ Parsed /\ inp.platform = "darwin"
    /\ inp.lines = << Line("class", Some(GENP), None), Line("svce", Some(<<"a">>), None),
                      Line("class", Some(GENP), None), Line("acct", Some(<<"A">>), None) >>
    /\ out.listed.entries = <<>>

====
